---- MODULE Spec2Model ----
(***************************************************************************)
(* Model of src/brvm_parser.py: the BRVM daily bulletin parser.            *)
(*                                                                         *)
(* Text is a sequence of one-character strings.  Python's None, where a    *)
(* cell may hold it, is the one-element sequence NoneCell, whose element   *)
(* is no character.  A float is a record [kind, m, e]: kind "float" is the *)
(* decimal m / 10^e with e minimal, kind "inf" is the IEEE infinity that   *)
(* float() returns beyond the double range, kind "None" is None.           *)
(***************************************************************************)
EXTENDS Integers, Sequences, FiniteSets, TLC

VARIABLES
    cell, num, cn_pc,                 \* clean_num: argument, result, position
    row, record, ps_pc,               \* parse_stock_row: argument, result, position
    pages, stocks, pb_pc,             \* parse_bulletin: pdf.pages, result, position
    retries, attempt, dl_log, sleeps, dl_result, dl_pc,   \* download_pdf
    dry_run, configured, dates, di, success, outcome, naps, sink_calls,
    exit_code, main_pc                \* main / process_date

cellVars == <<cell, num, cn_pc>>
rowVars  == <<row, record, ps_pc>>
bullVars == <<pages, stocks, pb_pc>>
dlVars   == <<retries, attempt, dl_log, sleeps, dl_result, dl_pc>>
mainVars == <<dry_run, configured, dates, di, success, outcome, naps,
              sink_calls, exit_code, main_pc>>
vars == <<cellVars, rowVars, bullVars, dlVars, mainVars>>

----------------------------------------------------------------------------
(* Bounds of the model *)

\* longest generated cell text
MaxCellLen == 3
\* longest generated row
MaxRowLen == 16
\* most pages in a generated document
MaxPages == 6
\* most tables on a generated page
MaxTables == 2
\* largest `retries` argument tried on download_pdf
MaxRetries == 3
\* most dates in one run of main
MaxDates == 2

----------------------------------------------------------------------------
(* Python strings *)

NL == "\n"
BS == "\\"
NoneCell == <<"<None>">>

Digits == {"0", "1", "2", "3", "4", "5", "6", "7", "8", "9"}
Upper == {"A", "B", "C", "D", "E", "F", "G", "H", "I", "J", "K", "L", "M",
          "N", "O", "P", "Q", "R", "S", "T", "U", "V", "W", "X", "Y", "Z"}
Whitespace == {" ", NL, "\t"}

\* str(x): None prints as the four letters None
str(x) == IF x = NoneCell THEN <<"N", "o", "n", "e">> ELSE x

\* truth value of a cell: None and the empty string are false
Truthy(x) == x # NoneCell /\ x # <<>>

\* s.replace(a, b) for one-character a and b
Replace(s, a, b) == [i \in 1..Len(s) |-> IF s[i] = a THEN b ELSE s[i]]

\* s.replace(a, "")
Remove(s, a) == SelectSeq(s, LAMBDA c : c # a)

\* s.split(sep)[0]
SplitFirst(s, sep) ==
    IF \E i \in 1..Len(s) : s[i] = sep
    THEN SubSeq(s, 1, (CHOOSE i \in 1..Len(s) :
                          /\ s[i] = sep
                          /\ \A j \in 1..(i - 1) : s[j] # sep) - 1)
    ELSE s

\* s.strip()
strip(s) ==
    LET keep == {i \in 1..Len(s) : s[i] \notin Whitespace}
    IN  IF keep = {} THEN <<>>
        ELSE SubSeq(s, CHOOSE i \in keep : \A j \in keep : i <= j,
                       CHOOSE i \in keep : \A j \in keep : j <= i)

----------------------------------------------------------------------------
(* Python floats *)

PyNone == [kind |-> "None", m |-> 0, e |-> 0]
PyInf(neg) == [kind |-> "inf", m |-> IF neg THEN -1 ELSE 1, e |-> 0]
\* float() raising ValueError
ValueError == [kind |-> "ValueError", m |-> 0, e |-> 0]

\* decimal exponent of the largest finite double, 1.797...e308
FloatMaxExp == 308

DigitVal(c) ==
    CASE c = "0" -> 0 [] c = "1" -> 1 [] c = "2" -> 2 [] c = "3" -> 3
      [] c = "4" -> 4 [] c = "5" -> 5 [] c = "6" -> 6 [] c = "7" -> 7
      [] c = "8" -> 8 [] c = "9" -> 9

RECURSIVE DigitsToNat(_)
DigitsToNat(ds) ==
    IF ds = <<>> THEN 0
    ELSE 10 * DigitsToNat(SubSeq(ds, 1, Len(ds) - 1)) + DigitVal(ds[Len(ds)])

RECURSIVE StripLeadingZeros(_)
StripLeadingZeros(ds) ==
    IF ds # <<>> /\ ds[1] = "0" THEN StripLeadingZeros(Tail(ds)) ELSE ds

RECURSIVE StripTrailingZeros(_)
StripTrailingZeros(ds) ==
    IF ds # <<>> /\ ds[Len(ds)] = "0"
    THEN StripTrailingZeros(SubSeq(ds, 1, Len(ds) - 1)) ELSE ds

\* float(s) for s over digits, "." and "-" (all that clean_num's filter lets
\* through); ValueError when float() raises it.  A value of more integer
\* digits than a double holds is infinity.
PyFloat(s) ==
    LET neg  == s # <<>> /\ s[1] = "-"
        body == IF neg THEN Tail(s) ELSE s
        dots == {i \in 1..Len(body) : body[i] = "."}
        ok   == /\ \A i \in 1..Len(body) : body[i] \in Digits \cup {"."}
                /\ Cardinality(dots) <= 1
                /\ \E i \in 1..Len(body) : body[i] \in Digits
        ip   == StripLeadingZeros(SplitFirst(body, "."))
        fp   == StripTrailingZeros(
                    IF dots = {} THEN <<>>
                    ELSE SubSeq(body, Len(SplitFirst(body, ".")) + 2, Len(body)))
        big  == \/ Len(ip) > FloatMaxExp + 1
                \/ Len(ip) = FloatMaxExp + 1 /\ DigitVal(ip[1]) >= 2
        mag  == DigitsToNat(ip \o fp)
    IN  IF ~ok THEN ValueError
        ELSE IF big THEN PyInf(neg)
        ELSE [kind |-> "float", m |-> IF neg THEN -mag ELSE mag, e |-> Len(fp)]

RECURSIVE Pow10(_)
Pow10(n) == IF n = 0 THEN 1 ELSE 10 * Pow10(n - 1)

\* int(x) of a finite float: truncation towards zero
PyInt(x) ==
    IF x.m >= 0 THEN x.m \div Pow10(x.e) ELSE -((-x.m) \div Pow10(x.e))

\* truth value of a float-or-None: None and zero are false
FloatTruthy(x) == x.kind = "inf" \/ (x.kind = "float" /\ x.m # 0)

----------------------------------------------------------------------------
(* clean_num *)

\* re.sub(r"[^\d,.\-]", "", s): keep digits, comma, dot and minus
KeptChars == Digits \cup {",", ".", "-"}
ReSubKeep(s) == SelectSeq(s, LAMBDA c : c \in KeptChars)

clean_num(s) ==
    IF s = NoneCell THEN PyNone
    ELSE LET sub     == Replace(ReSubKeep(str(s)), ",", ".")
             cleaned == SplitFirst(SplitFirst(sub, NL), BS)
         IN  IF cleaned \in {<<>>, <<"-">>} THEN PyNone
             ELSE IF PyFloat(cleaned) = ValueError THEN PyNone
             ELSE PyFloat(cleaned)

----------------------------------------------------------------------------
(* parse_stock_row *)

SECTOR_CODES == {<<"C", "B">>, <<"C", "D">>, <<"T", "E", "L">>, <<"F", "I", "N">>,
                 <<"I", "N", "D">>, <<"E", "N", "E">>, <<"S", "P", "U">>}

\* TICKER_RE.match(t) for ^[A-Z]{3,6}$ : in Python "$" also matches before
\* one final line break
TICKER_RE(t) ==
    LET core == IF t # <<>> /\ t[Len(t)] = NL THEN SubSeq(t, 1, Len(t) - 1) ELSE t
    IN  /\ Len(core) >= 3
        /\ Len(core) <= 6
        /\ \A i \in 1..Len(core) : core[i] \in Upper

\* row[i], counted from 0 as in the code
Cell(r, i) == r[i + 1]

NoText == [kind |-> "None", s |-> <<>>]
Text(s) == [kind |-> "str", s |-> s]

\* the nested function pct(col_idx)
pct(r, col_idx) ==
    IF Len(r) <= col_idx \/ ~Truthy(Cell(r, col_idx)) THEN PyNone
    ELSE clean_num(Remove(str(Cell(r, col_idx)), "%"))

\* clean_num(str(row[i]).replace(" ", "")) or 0 : the argument handed to int()
IntArg(r, i) ==
    LET x == clean_num(Remove(str(Cell(r, i)), " "))
    IN  IF FloatTruthy(x) THEN x ELSE [kind |-> "float", m |-> 0, e |-> 0]

\* the ticker candidate of a row
Ticker(r) == IF Truthy(Cell(r, 1)) THEN strip(str(Cell(r, 1))) ELSE <<>>

\* parse_stock_row without the check of the ticker's shape
RejectedWithoutTickerCheck(r) ==
    \/ Len(r) < 12
    \/ strip(str(Cell(r, 0))) \notin SECTOR_CODES

\* the three checks that make parse_stock_row return None
Rejected(r) ==
    \/ Len(r) < 12
    \/ strip(str(Cell(r, 0))) \notin SECTOR_CODES
    \/ ~TICKER_RE(Ticker(r))

NotARecord == [kind |-> "None"]
\* int(float("inf")) raises OverflowError, which parse_stock_row lets through
Raised == [kind |-> "raise"]

parse_stock_row(r, bulletin_date) ==
    IF Rejected(r) THEN NotARecord
    ELSE IF IntArg(r, 8).kind = "inf" \/ IntArg(r, 9).kind = "inf" THEN Raised
    ELSE [kind             |-> "record",
          date             |-> bulletin_date,
          secteur          |-> strip(str(Cell(r, 0))),
          ticker           |-> Ticker(r),
          compagnie        |-> IF Truthy(Cell(r, 2))
                               THEN Text(Replace(strip(str(Cell(r, 2))), NL, " "))
                               ELSE NoText,
          cours_precedent  |-> clean_num(Cell(r, 4)),
          cours_ouv        |-> clean_num(Cell(r, 5)),
          cours_cloture    |-> clean_num(Cell(r, 6)),
          variation_jour   |-> pct(r, 7),
          volume           |-> PyInt(IntArg(r, 8)),
          valeur_transigee |-> PyInt(IntArg(r, 9)),
          cours_reference  |-> clean_num(Cell(r, 10)),
          variation_ytd    |-> pct(r, 11),
          dernier_div      |-> IF Len(r) > 12 THEN clean_num(Cell(r, 12)) ELSE PyNone,
          date_div         |-> IF Len(r) > 13 /\ Truthy(Cell(r, 13))
                               THEN Text(strip(str(Cell(r, 13)))) ELSE NoText,
          rendement_net    |-> IF Len(r) > 14 THEN pct(r, 14) ELSE PyNone,
          per              |-> IF Len(r) > 15 /\ Truthy(Cell(r, 15))
                               THEN clean_num(SplitFirst(
                                        Replace(str(Cell(r, 15)), NL, " "), ","))
                               ELSE PyNone]

----------------------------------------------------------------------------
(* parse_bulletin *)

\* a document is pdf.pages: a sequence of pages, a page the sequence of its
\* tables (page.extract_tables()), a table a sequence of rows

RECURSIVE Concat(_)
Concat(ss) == IF ss = <<>> THEN <<>> ELSE Head(ss) \o Concat(Tail(ss))

\* range(1, 6): the page indexes, counted from 0, the loop runs over
PageIndexes == 1..5

\* the indexes the loop reaches before "if page_idx >= len(pdf.pages): break"
ScannedIndexes(pgs) == {i \in PageIndexes : \A j \in PageIndexes : j <= i => j < Len(pgs)}

\* the rows handed to parse_stock_row, in the order of the three loops
ScannedRows(pgs) ==
    Concat([k \in 1..Len(pgs) |->
              IF (k - 1) \in ScannedIndexes(pgs) THEN Concat(pgs[k]) ELSE <<>>])

\* the test of the loop without the look-up in seen_tickers
KeepEvery(rec, seen_tickers) == rec.kind = "record"

\* "if record and record["ticker"] not in seen_tickers"
Keep(rec, seen_tickers) == rec.kind = "record" /\ rec.ticker \notin seen_tickers

RECURSIVE ScanRows(_, _, _, _)
ScanRows(rows, bulletin_date, acc, seen_tickers) ==
    IF rows = <<>> THEN [kind |-> "list", stocks |-> acc]
    ELSE LET rec == parse_stock_row(Head(rows), bulletin_date)
         IN  IF rec = Raised THEN [kind |-> "raise", stocks |-> <<>>]
             ELSE IF Keep(rec, seen_tickers)
             THEN ScanRows(Tail(rows), bulletin_date, Append(acc, rec),
                           seen_tickers \cup {rec.ticker})
             ELSE ScanRows(Tail(rows), bulletin_date, acc, seen_tickers)

parse_bulletin(pgs, bulletin_date) ==
    ScanRows(ScannedRows(pgs), bulletin_date, <<>>, {})

----------------------------------------------------------------------------
(* download_pdf *)

\* what download_pdf returns: None, or the bytes of a document (here the
\* pages pdfplumber will find in them; a 200 with an empty body is left out)
NoPdf == [kind |-> "None", doc |-> <<>>]
Pdf(d) == [kind |-> "bytes", doc |-> d]

\* "retries: int = 3"
DefaultRetries == 3

\* what one requests.get can end in: a status code, or a RequestException
Responses == {"200", "404", "500", "503", "error"}

\* sleeping after every failed attempt, the last one too
SleepsAfterEvery(k, n) == TRUE

\* "if attempt < retries": whether a failed attempt is followed by a sleep
SleepsAfter(k, n) == k < n

\* "time.sleep(5 * attempt)"
Backoff(k) == 5 * k

\* entering download_pdf: range(1, retries + 1) is empty when retries < 1,
\* and the function falls through to "return None"
DownloadCall ==
    /\ dl_pc = "call"
    /\ attempt' = 1
    /\ dl_pc' = IF retries >= 1 THEN "request" ELSE "done"
    /\ dl_result' = NoPdf
    /\ UNCHANGED <<retries, dl_log, sleeps>>

\* one turn of the loop: the request of attempt `attempt` ends in resp
\* (with content d when the status is 200)
DownloadAttempt(resp, d) ==
    /\ dl_pc = "request"
    /\ dl_log' = Append(dl_log, resp)
    /\ IF resp = "200"
       THEN /\ dl_result' = Pdf(d)
            /\ dl_pc' = "done"
            /\ UNCHANGED <<attempt, sleeps>>
       ELSE IF resp = "404"
       THEN /\ dl_result' = NoPdf
            /\ dl_pc' = "done"
            /\ UNCHANGED <<attempt, sleeps>>
       ELSE /\ sleeps' = IF SleepsAfter(attempt, retries)
                         THEN Append(sleeps, Backoff(attempt)) ELSE sleeps
            /\ attempt' = attempt + 1
            /\ dl_pc' = IF attempt + 1 <= retries THEN "request" ELSE "done"
            /\ dl_result' = NoPdf
    /\ UNCHANGED retries

----------------------------------------------------------------------------
(* Inputs: cell texts and rows *)

Alphabet == {"1", ",", ".", "-", " ", NL, "%"}

\* every text over Alphabet of at most MaxCellLen characters
GeneratedCells == UNION {[1..k -> Alphabet] : k \in 0..MaxCellLen}

\* a run of nines too long for a double
HugeCell == [i \in 1..(FloatMaxExp + 2) |-> "9"]

NamedCells ==
    { <<"1", " ", "2", "2", "6", ",", "1", "3">>,
      <<"1", " ", "2", "2", "6", ",", NL, "1", "3">>,
      <<"1", " ", "2", "2", "6", NL, "1", "3">>,
      <<"N", "/", "A">>,
      <<"1", " ", "0", "0", "0">>,
      <<"1", "0", "2", " ", "0", "0", "0">>,
      <<"1", ".", "0", "%">>,
      <<"1", "2", ",", "5">>,
      <<"-", "0">>,
      <<"2", BS, "5">>,
      HugeCell,
      NoneCell }

Cells == GeneratedCells \cup NamedCells

\* a well-formed row of 16 cells, after the row of the specification's
\* end-to-end scenario, with the four trailing cells filled
BaseRow ==
    << <<"F", "I", "N">>,
       <<"A", "B", "C", "D">>,
       <<"E", "x", "a", "m", "p", "l", "e", " ", "C", "o">>,
       <<>>,
       <<"1", "0", "0">>,
       <<"1", "0", "1">>,
       <<"1", "0", "2">>,
       <<"1", ".", "0", "%">>,
       <<"1", " ", "0", "0", "0">>,
       <<"1", "0", "2", " ", "0", "0", "0">>,
       <<"1", "0", "0">>,
       <<"2", ".", "0", "%">>,
       <<"5", "0">>,
       <<"1", "2", "/", "0", "5">>,
       <<"3", ",", "5", "%">>,
       <<"1", "2", ",", "5">> >>

\* the first n cells of r, padded with empty cells
Resize(r, n) == [i \in 1..n |-> IF i <= Len(r) THEN r[i] ELSE <<>>]

\* r with row[i] (counted from 0) set to c
Put(r, i, c) == [r EXCEPT ![i + 1] = c]

SectorCells ==
    { <<"F", "I", "N">>, <<" ", "F", "I", "N", NL>>, <<"C", "B">>, <<"S", "P", "U">>,
      <<"f", "i", "n">>, <<"F", "I", "N", "X">>, <<"F", " ", "I", "N">>,
      <<"S", "e", "c", "t", "e", "u", "r">>, <<>>, NoneCell }

TickerCells ==
    { <<"A", "B", "C", "D">>, <<" ", "A", "B", "C", "D", NL>>, <<"A", "B">>,
      <<"A", "B", "C">>, <<"A", "B", "C", "D", "E", "F">>,
      <<"A", "B", "C", "D", "E", "F", "G">>, <<"A", "B", "1", "D">>,
      <<"a", "b", "c", "d">>, <<"?", "?">>, <<"A", " ", "C", "D">>,
      <<"A", "B", "C", NL, "D">>, <<>>, NoneCell }

\* r is a row that tries the three checks: any length, sector and ticker cell
IsGateRow(r) ==
    \/ \E n \in 2..MaxRowLen, c0 \in SectorCells, c1 \in TickerCells :
          r = Put(Put(Resize(BaseRow, n), 0, c0), 1, c1)
    \/ \E n \in 0..1 : r = Resize(BaseRow, n)

\* r is a row that passes the checks, with one cell after the ticker replaced
IsFieldRow(r) ==
    \E n \in 12..MaxRowLen : \E i \in 2..(n - 1) : \E c \in Cells :
        r = Put(Resize(BaseRow, n), i, c)

----------------------------------------------------------------------------
(* The parts of the state a specification leaves alone *)

CellIdle == cell = <<>> /\ num = PyNone /\ cn_pc = "idle"
RowIdle  == row = <<>> /\ record = NotARecord /\ ps_pc = "idle"
BullIdle == pages = <<>> /\ stocks = <<>> /\ pb_pc = "idle"
DlIdle   == /\ retries = 0 /\ attempt = 1 /\ dl_log = <<>> /\ sleeps = <<>>
            /\ dl_result = NoPdf /\ dl_pc = "idle"
MainIdle == /\ dry_run = FALSE /\ configured = FALSE /\ dates = 0 /\ di = 1
            /\ success = 0 /\ outcome = <<>> /\ naps = 0 /\ sink_calls = <<>>
            /\ exit_code = -1 /\ main_pc = "idle"

----------------------------------------------------------------------------
(* clean_num applied to a cell *)

InitCell == cell \in Cells /\ num = PyNone /\ cn_pc = "call"
            /\ RowIdle /\ BullIdle /\ DlIdle /\ MainIdle

CleanNum ==
    /\ cn_pc = "call"
    /\ num' = clean_num(cell)
    /\ cn_pc' = "returned"
    /\ UNCHANGED <<cell, rowVars, bullVars, dlVars, mainVars>>

NextCell == CleanNum
SpecCell == InitCell /\ [][NextCell]_vars

----------------------------------------------------------------------------
(* parse_stock_row applied to a row *)

InitRow == /\ IsGateRow(row) \/ IsFieldRow(row)
           /\ record = NotARecord /\ ps_pc = "call"
           /\ CellIdle /\ BullIdle /\ DlIdle /\ MainIdle

ParseStockRow ==
    /\ ps_pc = "call"
    /\ record' = parse_stock_row(row, 1)
    /\ ps_pc' = "returned"
    /\ UNCHANGED <<row, cellVars, bullVars, dlVars, mainVars>>

NextRow == ParseStockRow
SpecRow == InitRow /\ [][NextRow]_vars

----------------------------------------------------------------------------
(* Inputs: documents *)

\* the row of the specification's end-to-end scenario
ScenarioRow == [i \in 1..16 |-> IF i <= 12 THEN BaseRow[i] ELSE <<>>]
\* its malformed row: sector FIN, ticker ??
MalformedRow == Put(Put(ScenarioRow, 1, <<"?", "?">>), 2, <<"X">>)
\* a table's header row
HeaderRow == Resize(<< <<"S", "e", "c", "t", "e", "u", "r">>,
                       <<"S", "y", "m", "b", "o", "l", "e">> >>, 16)
\* the ticker of BaseRow again, with other prices and volumes
OtherValuesRow ==
    Put(Put(Put(BaseRow, 6, <<"9", "9">>), 8, <<"7">>), 9, <<"6", "9", "3">>)
\* another security
OtherTickerRow == Put(Put(BaseRow, 0, <<"T", "E", "L">>), 1, <<"X", "Y", "Z">>)
\* a row whose closing price cell is blank
NoCloseRow == Put(Put(BaseRow, 1, <<"N", "O", "C">>), 6, <<>>)
\* a row whose volume does not fit a double
HugeRow == Put(Put(BaseRow, 1, <<"B", "I", "G">>), 8, HugeCell)

RowPool == {BaseRow, OtherValuesRow, OtherTickerRow, MalformedRow, HugeRow}

ScenarioTable == <<HeaderRow, ScenarioRow, MalformedRow>>
\* the scenario's table on the only page of a document, and on page 2 of two
ScenarioOnPage1 == << <<ScenarioTable>> >>
ScenarioOnPage2 == << <<>>, <<ScenarioTable>> >>

\* the places a row can stand at: (page, table), both counted from 1
Places == (1..MaxPages) \X (1..MaxTables)
Before(a, b) == a[1] < b[1] \/ (a[1] = b[1] /\ a[2] <= b[2])

\* the document of n pages that holds the rows of `placed` (a sequence of
\* <<place, row>> in document order); each table starts with the header row,
\* and a page has as many tables as its last placed row needs
Document(n, placed) ==
    [pg \in 1..n |->
        LET here == {k \in 1..Len(placed) : placed[k][1][1] = pg}
            nt   == IF here = {} THEN 0
                    ELSE CHOOSE t \in 1..MaxTables :
                           /\ \E k \in here : placed[k][1][2] = t
                           /\ \A k \in here : placed[k][1][2] <= t
        IN  [t \in 1..nt |->
               <<HeaderRow>> \o
               Concat([k \in 1..Len(placed) |->
                         IF k \in here /\ placed[k][1][2] = t
                         THEN <<placed[k][2]>> ELSE <<>>])]]

\* d is a generated document: up to MaxPages pages holding no, one or two
\* rows of RowPool
IsDocument(d) ==
    \E n \in 0..MaxPages :
        \/ d = Document(n, <<>>)
        \/ \E a \in Places, r \in RowPool :
              a[1] <= n /\ d = Document(n, << <<a, r>> >>)
        \/ \E a \in Places, b \in Places, r \in RowPool, q \in RowPool :
              /\ a[1] <= n /\ b[1] <= n /\ Before(a, b)
              /\ d = Document(n, << <<a, r>>, <<b, q>> >>)

----------------------------------------------------------------------------
(* parse_bulletin applied to a document *)

InitBulletin ==
    /\ IsDocument(pages) \/ pages \in {ScenarioOnPage1, ScenarioOnPage2}
    /\ stocks = <<>> /\ pb_pc = "call"
    /\ CellIdle /\ RowIdle /\ DlIdle /\ MainIdle

ParseBulletin ==
    /\ pb_pc = "call"
    /\ \E res \in {parse_bulletin(pages, 1)} :
          /\ stocks' = res.stocks
          /\ pb_pc' = IF res.kind = "raise" THEN "raised" ELSE "returned"
    /\ UNCHANGED <<pages, cellVars, rowVars, dlVars, mainVars>>

NextBulletin == ParseBulletin
SpecBulletin == InitBulletin /\ [][NextBulletin]_vars

----------------------------------------------------------------------------
(* download_pdf called with a retries argument *)

\* a document with one record, one with its table outside the scanned pages,
\* one whose record has no closing price, one whose volume overflows
OneRecordDoc == ScenarioOnPage2
NoRecordDoc  == ScenarioOnPage1
NoCloseDoc   == << <<>>, << <<HeaderRow, NoCloseRow>> >> >>
HugeDoc      == << <<>>, << <<HeaderRow, HugeRow>> >> >>
ServedDocs   == {OneRecordDoc, NoRecordDoc, NoCloseDoc, HugeDoc}

InitDownload ==
    /\ retries \in 0..MaxRetries
    /\ attempt = 1 /\ dl_log = <<>> /\ sleeps = <<>>
    /\ dl_result = NoPdf /\ dl_pc = "call"
    /\ CellIdle /\ RowIdle /\ BullIdle /\ MainIdle

NextDownload ==
    \/ DownloadCall /\ UNCHANGED <<cellVars, rowVars, bullVars, mainVars>>
    \/ \E resp \in Responses, d \in ServedDocs :
          DownloadAttempt(resp, d) /\ UNCHANGED <<cellVars, rowVars, bullVars, mainVars>>

SpecDownload == InitDownload /\ [][NextDownload]_vars
\* requests.get is given timeout=30 and time.sleep returns: every turn of
\* the loop ends, so the loop is weakly fair
SpecDownloadFair == SpecDownload /\ WF_vars(NextDownload)

----------------------------------------------------------------------------
(* main and process_date *)

\* the print of the dry run formats cours_cloture and variation_jour with a
\* width, which raises TypeError on None
PrintRaises(recs) ==
    \E k \in 1..Len(recs) :
        recs[k].cours_cloture = PyNone \/ recs[k].variation_jour = PyNone

\* what the POST of the sink can end in: a status code, or an exception
SinkResponses == {"201", "500", "error"}

\* upsert_to_supabase(records) when the POST ends in post:
\* ret is the value returned, posted whether the POST was sent
upsert_to_supabase(recs, post) ==
    IF recs = <<>> THEN [crash |-> FALSE, ret |-> TRUE, posted |-> FALSE]
    ELSE IF ~configured THEN [crash |-> FALSE, ret |-> FALSE, posted |-> FALSE]
    ELSE IF post = "error" THEN [crash |-> TRUE, ret |-> FALSE, posted |-> TRUE]
    ELSE [crash |-> FALSE, ret |-> post \in {"200", "201"}, posted |-> TRUE]

\* what happened to one date: fetched (a document came back), exhausted
\* (every attempt failed), parser_called, nrecords (-1 without a parse),
\* sink_called (upsert_to_supabase was called), posted, crash (an exception
\* left main), counted (success was incremented)
Report(n, sink_called, posted, crash, counted) ==
    [fetched |-> dl_result.kind = "bytes",
     exhausted |-> dl_result.kind = "None" /\ Len(dl_log) > 0
                     /\ dl_log[Len(dl_log)] \notin {"200", "404"},
     parser_called |-> pb_pc # "idle", nrecords |-> n, sink_called |-> sink_called,
     posted |-> posted, crash |-> crash, counted |-> counted]

\* process_date(d) after download_pdf and, for a document, parse_bulletin
\* have returned
process_date(post) ==
    IF dl_result.kind = "None" THEN Report(-1, FALSE, FALSE, FALSE, TRUE)
    ELSE IF pb_pc = "raised" THEN Report(-1, FALSE, FALSE, TRUE, FALSE)
    ELSE IF stocks = <<>> THEN Report(0, FALSE, FALSE, FALSE, FALSE)
    ELSE Report(Len(stocks), TRUE, upsert_to_supabase(stocks, post).posted,
                upsert_to_supabase(stocks, post).crash,
                /\ ~upsert_to_supabase(stocks, post).crash
                /\ upsert_to_supabase(stocks, post).ret)

\* the dry-run branch of main's loop after download_pdf and, for a
\* document, parse_bulletin have returned
dry_run_date ==
    IF dl_result.kind = "None" THEN Report(-1, FALSE, FALSE, FALSE, TRUE)
    ELSE IF pb_pc = "raised" THEN Report(-1, FALSE, FALSE, TRUE, FALSE)
    ELSE IF PrintRaises(stocks) THEN Report(Len(stocks), FALSE, FALSE, TRUE, FALSE)
    ELSE Report(Len(stocks), FALSE, FALSE, FALSE, TRUE)

InitMain ==
    /\ dry_run \in BOOLEAN /\ configured \in BOOLEAN
    /\ dates \in 1..MaxDates
    /\ di = 1 /\ success = 0 /\ outcome = <<>> /\ naps = 0 /\ sink_calls = <<>>
    /\ exit_code = -1 /\ main_pc = "loop"
    /\ retries = DefaultRetries /\ attempt = 1 /\ dl_log = <<>> /\ sleeps = <<>>
    /\ dl_result = NoPdf /\ dl_pc = "idle"
    /\ BullIdle /\ CellIdle /\ RowIdle

\* the loop takes the next date and calls download_pdf(d)
BeginDate ==
    /\ main_pc = "loop"
    /\ di <= dates
    /\ main_pc' = "downloading"
    /\ dl_pc' = "call"
    /\ dl_log' = <<>>
    /\ sleeps' = <<>>
    /\ dl_result' = NoPdf
    /\ attempt' = 1
    /\ pages' = <<>> /\ stocks' = <<>> /\ pb_pc' = "idle"
    /\ UNCHANGED <<retries, dry_run, configured, dates, di, success, outcome, naps,
                   sink_calls, exit_code>>

\* download_pdf returned a document: both branches of the loop hand it to
\* parse_bulletin(pdf, d)
ParseDate ==
    /\ main_pc = "downloading"
    /\ dl_pc = "done"
    /\ dl_result.kind = "bytes"
    /\ pages' = dl_result.doc
    /\ \E res \in {parse_bulletin(dl_result.doc, di)} :
          /\ stocks' = res.stocks
          /\ pb_pc' = IF res.kind = "raise" THEN "raised" ELSE "returned"
    /\ main_pc' = "parsed"
    /\ UNCHANGED <<dlVars, dry_run, configured, dates, di, success, outcome, naps,
                   sink_calls, exit_code>>

\* the rest of the loop body, after download_pdf returned None or
\* parse_bulletin ended, and, after the last date, the end of main:
\* sys.exit(0 if success == len(dates) else 1).  An exception that leaves
\* main ends the process with status 1.
FinishDate(post) ==
    /\ \/ main_pc = "downloading" /\ dl_pc = "done" /\ dl_result.kind = "None"
       \/ main_pc = "parsed"
    /\ \E rep \in {IF dry_run THEN dry_run_date ELSE process_date(post)} :
        \E succ \in {IF rep.counted THEN success + 1 ELSE success} :
           /\ outcome' = Append(outcome, rep)
           /\ success' = succ
           /\ sink_calls' = IF rep.posted THEN Append(sink_calls, di) ELSE sink_calls
           /\ naps' = IF ~dry_run /\ ~rep.crash /\ dates > 1 THEN naps + 1 ELSE naps
           /\ IF rep.crash
              THEN main_pc' = "crashed" /\ exit_code' = 1 /\ di' = di
              ELSE IF di = dates
              THEN /\ main_pc' = "exited"
                   /\ exit_code' = IF succ = dates THEN 0 ELSE 1
                   /\ di' = di + 1
              ELSE main_pc' = "loop" /\ exit_code' = exit_code /\ di' = di + 1
    /\ dl_pc' = "idle"
    /\ UNCHANGED <<retries, attempt, dl_log, sleeps, dl_result, dry_run, configured,
                   dates, bullVars>>

Next ==
    \/ BeginDate /\ UNCHANGED <<cellVars, rowVars>>
    \/ /\ main_pc = "downloading"
       /\ DownloadCall
       /\ UNCHANGED <<cellVars, rowVars, bullVars, mainVars>>
    \/ \E resp \in Responses, d \in ServedDocs :
          /\ main_pc = "downloading"
          /\ DownloadAttempt(resp, d)
          /\ UNCHANGED <<cellVars, rowVars, bullVars, mainVars>>
    \/ ParseDate /\ UNCHANGED <<cellVars, rowVars>>
    \/ \E post \in SinkResponses :
          FinishDate(post) /\ UNCHANGED <<cellVars, rowVars>>

Init == InitMain
Spec == Init /\ [][Next]_vars

----------------------------------------------------------------------------
(* Statements about clean_num and parse_stock_row *)

\* the finite float m / 10^e
Dec(m, e) == [kind |-> "float", m |-> m, e |-> e]

HasLineBreak(c) == c # NoneCell /\ \E i \in 1..Len(c) : c[i] = NL

\* C6: clean_num truncates a cell at its first line break: the result is
\* clean_num of the text before the break, so "1 226<break>13" gives 1226.0
\* while the one-line "1 226,13" gives 1226.13.
C6_TruncatesAtLineBreak ==
    cn_pc = "returned" =>
        /\ HasLineBreak(cell) => num = clean_num(SplitFirst(cell, NL))
        /\ cell = <<"1", " ", "2", "2", "6", NL, "1", "3">> => num = Dec(1226, 0)
        /\ cell = <<"1", " ", "2", "2", "6", ",", "1", "3">> => num = Dec(122613, 2)

\* a cell's text with the blanks at both ends removed; None has no text
Trimmed(c) == IF c = NoneCell THEN <<>> ELSE strip(c)

\* the acceptance condition in the words of the specification
Accepted(r) ==
    /\ Len(r) >= 12
    /\ Trimmed(r[1]) \in SECTOR_CODES
    /\ Len(Trimmed(r[2])) \in 3..6
    /\ \A i \in 1..Len(Trimmed(r[2])) : Trimmed(r[2])[i] \in Upper

\* C3: parse_stock_row returns a record exactly for the rows of at least 12
\* cells whose trimmed cell 0 is a sector code and whose trimmed cell 1 is 3
\* to 6 uppercase letters; every other row yields not-a-record.
C3_RecordIffAccepted ==
    ps_pc = "returned" =>
        /\ Accepted(row) => record.kind = "record"
        /\ ~Accepted(row) => record = NotARecord

\* a cell holds no number: it is None, or nothing of it parses
Unparsable(c) == clean_num(c) = PyNone

\* C7: for every accepted row volume and traded value are integers, never
\* absent; blanks inside the cell are dropped before the numeric cleanup, a
\* cell that holds no number gives 0, and building the record never raises.
C7_IntegerFields ==
    (ps_pc = "returned" /\ Accepted(row)) =>
        /\ record.kind = "record"
        /\ record.volume \in Int
        /\ record.valeur_transigee \in Int
        /\ \A i \in 8..9 :
              LET c == Remove(str(Cell(row, i)), " ")
                  v == IF i = 8 THEN record.volume ELSE record.valeur_transigee
              IN  IF Unparsable(c) THEN v = 0 ELSE v = PyInt(clean_num(c))

\* C9: for every accepted row the fields at cells 4, 5, 6, 10, 12 and 15 are
\* clean_num of the cell, the percentage fields at 7, 11 and 14 are clean_num
\* of the cell without its percent sign, and a field at 12 to 15 is absent
\* exactly when the row is too short or the cell is blank or unparsable.
C9_FieldsAreCleanNum ==
    (ps_pc = "returned" /\ Accepted(row) /\ record.kind = "record") =>
        LET at(i) == IF Len(row) > i THEN Cell(row, i) ELSE NoneCell
            noPct(i) == IF at(i) = NoneCell THEN NoneCell ELSE Remove(at(i), "%")
        IN  /\ record.cours_precedent = clean_num(at(4))
            /\ record.cours_ouv = clean_num(at(5))
            /\ record.cours_cloture = clean_num(at(6))
            /\ record.cours_reference = clean_num(at(10))
            /\ record.dernier_div = clean_num(at(12))
            /\ record.per = clean_num(at(15))
            /\ record.variation_jour = clean_num(noPct(7))
            /\ record.variation_ytd = clean_num(noPct(11))
            /\ record.rendement_net = clean_num(noPct(14))
            /\ record.date_div = NoText <=> ~Truthy(at(13))

\* the same, leaving out the price/earnings ratio
FieldsBesidesPer ==
    (ps_pc = "returned" /\ Accepted(row) /\ record.kind = "record") =>
        LET at(i) == IF Len(row) > i THEN Cell(row, i) ELSE NoneCell
            noPct(i) == IF at(i) = NoneCell THEN NoneCell ELSE Remove(at(i), "%")
        IN  /\ record.cours_precedent = clean_num(at(4))
            /\ record.cours_ouv = clean_num(at(5))
            /\ record.cours_cloture = clean_num(at(6))
            /\ record.cours_reference = clean_num(at(10))
            /\ record.dernier_div = clean_num(at(12))
            /\ record.variation_jour = clean_num(noPct(7))
            /\ record.variation_ytd = clean_num(noPct(11))
            /\ record.rendement_net = clean_num(noPct(14))
            /\ record.date_div = NoText <=> ~Truthy(at(13))

\* the check of C3 on the rows whose integer cells fit a double
GateBesidesOverflow ==
    (ps_pc = "returned" /\ record # Raised) =>
        /\ Accepted(row) => record.kind = "record"
        /\ ~Accepted(row) => record = NotARecord

\* the check of C7 on the rows whose integer cells fit a double
IntegersBesidesOverflow ==
    (ps_pc = "returned" /\ Accepted(row) /\ record # Raised) =>
        /\ record.kind = "record"
        /\ record.volume \in Int
        /\ record.valeur_transigee \in Int
        /\ \A i \in 8..9 :
              LET c == Remove(str(Cell(row, i)), " ")
                  v == IF i = 8 THEN record.volume ELSE record.valeur_transigee
              IN  IF Unparsable(c) THEN v = 0 ELSE v = PyInt(clean_num(c))

----------------------------------------------------------------------------
(* Statements about parse_bulletin *)

\* the rows on pages lo..hi (counted from 1) in document order
RowsOnPages(pgs, lo, hi) ==
    Concat([k \in 1..Len(pgs) |->
              IF k >= lo /\ k <= hi THEN Concat(pgs[k]) ELSE <<>>])

\* row r stands on page p (counted from 1)
OnPage(pgs, p, r) ==
    p <= Len(pgs) /\ \E t \in 1..Len(pgs[p]) : \E i \in 1..Len(pgs[p][t]) :
                        pgs[p][t][i] = r

\* C1: the returned sequence holds no ticker twice, and the record kept for a
\* ticker is the one built from the first accepted row with it in document
\* order; every accepted row of pages 2 to 5 has its ticker in the result.
C1_FirstOccurrenceWins ==
    pb_pc = "returned" =>
        LET rws == RowsOnPages(pages, 2, Len(pages))
            firstOf(t) == CHOOSE i \in 1..Len(rws) :
                             /\ Accepted(rws[i]) /\ Trimmed(rws[i][2]) = t
                             /\ \A j \in 1..(i - 1) :
                                   ~(Accepted(rws[j]) /\ Trimmed(rws[j][2]) = t)
            window == RowsOnPages(pages, 2, 5)
        IN  /\ \A i, j \in 1..Len(stocks) :
                  i # j => stocks[i].ticker # stocks[j].ticker
            /\ \A k \in 1..Len(stocks) :
                  /\ \E i \in 1..Len(rws) :
                        Accepted(rws[i]) /\ Trimmed(rws[i][2]) = stocks[k].ticker
                  /\ stocks[k] = parse_stock_row(rws[firstOf(stocks[k].ticker)], 1)
            /\ \A i \in 1..Len(window) :
                  Accepted(window[i]) =>
                      \E k \in 1..Len(stocks) : stocks[k].ticker = Trimmed(window[i][2])

\* a ticker stands on two pages of the window with different values, and the
\* result holds the first row's record alone
C1_Witness ==
    /\ pb_pc = "returned"
    /\ \E p \in 2..5 : \E q \in 2..5 :
          p < q /\ OnPage(pages, p, BaseRow) /\ OnPage(pages, q, OtherValuesRow)
    /\ Len(stocks) = 1
    /\ stocks[1].cours_cloture = Dec(102, 0)
    /\ stocks[1].volume = 1000

\* C2: every record comes from a row on pages 2 to 5, so a document with no
\* table on those pages yields no record.
C2_OnlyPages2To5 ==
    pb_pc = "returned" =>
        /\ \A k \in 1..Len(stocks) :
              \E p \in 2..5 : \E r \in RowPool \cup {ScenarioRow} :
                  OnPage(pages, p, r) /\ parse_stock_row(r, 1) = stocks[k]
        /\ RowsOnPages(pages, 2, 5) = <<>> => stocks = <<>>

\* the record the scenario expects: ticker ABCD, volume 1000, traded value
\* 102000, variation_jour 1.0, and no other record
ScenarioResult ==
    /\ Len(stocks) = 1
    /\ stocks[1].ticker = <<"A", "B", "C", "D">>
    /\ stocks[1].volume = 1000
    /\ stocks[1].valeur_transigee = 102000
    /\ stocks[1].variation_jour = Dec(1, 0)

\* C8 as stated: the scenario's table on the single page of a 1-page
\* document gives exactly the scenario's record.
C8_ScenarioOnOnlyPage ==
    (pb_pc = "returned" /\ pages = ScenarioOnPage1) => ScenarioResult

\* C8 as amended: the scenario's table on page 2 of a 2-page document gives
\* exactly one record, with ticker ABCD, volume 1000, traded value 102000 and
\* variation_jour 1.0.
C8_ScenarioOnSecondPage ==
    (pages = ScenarioOnPage2 /\ pb_pc # "call") =>
        (pb_pc = "returned" /\ ScenarioResult)

C8_Witness ==
    pages = ScenarioOnPage2 /\ pb_pc = "returned" /\ Len(stocks) = 1

----------------------------------------------------------------------------
(* Statements about download_pdf, process_date and main *)

\* attempt i of the current download ended in neither 200 nor 404
Failed(i) == dl_log[i] \notin {"200", "404"}

\* download_pdf makes at most `retries` attempts, none after a 200 or a 404,
\* returns the bytes on 200 and None otherwise, and after the failed attempt
\* k has slept 5*k seconds exactly when k < retries
DownloadSafe ==
    /\ Len(dl_log) <= retries
    /\ \A i \in 1..(Len(dl_log) - 1) : Failed(i)
    /\ dl_pc = "request" =>
          Len(dl_log) < retries /\ \A i \in 1..Len(dl_log) : Failed(i)
    /\ dl_pc = "done" =>
          /\ Len(dl_log) = retries \/ ~Failed(Len(dl_log))
          /\ dl_result.kind = "bytes" <=>
                (Len(dl_log) > 0 /\ dl_log[Len(dl_log)] = "200")
    /\ sleeps = [k \in 1..Cardinality({i \in 1..Len(dl_log) :
                                          Failed(i) /\ i < retries}) |-> 5 * k]

\* C10: download_pdf always ends, after at most `retries` attempts: it stops
\* at the first 200 (returning the bytes) or 404 (returning None), waits 5*k
\* seconds after a failed attempt k only if k < retries, and returns None
\* when every attempt failed.
C10_DownloadTerminates == []DownloadSafe /\ <>(dl_pc = "done")

\* three failed attempts with the default retries: two sleeps, then None
C10_Witness ==
    /\ dl_pc = "done"
    /\ retries = DefaultRetries
    /\ Len(dl_log) = retries
    /\ \A i \in 1..Len(dl_log) : Failed(i)
    /\ sleeps = <<5, 10>>
    /\ dl_result = NoPdf

\* C4: a date whose document was fetched and parsed to zero records is a
\* failure in every run mode: it is not counted as processed and the sink is
\* not called for it.
C4_EmptyExtractionFails ==
    \A d \in 1..Len(outcome) :
        (outcome[d].fetched /\ outcome[d].nrecords = 0) =>
            ~outcome[d].counted /\ ~outcome[d].sink_called

\* the same outside the dry run
EmptyExtractionFailsInProcessDate ==
    \A d \in 1..Len(outcome) :
        (~dry_run /\ outcome[d].fetched /\ outcome[d].nrecords = 0) =>
            ~outcome[d].counted /\ ~outcome[d].sink_called

\* C5: a date whose every download attempt failed never reaches the parser
\* and is a failure: it is not counted as processed.
C5_FetchFailureFails ==
    \A d \in 1..Len(outcome) :
        outcome[d].exhausted => ~outcome[d].parser_called /\ ~outcome[d].counted

\* the half of C5 the code keeps: no parse after a failed fetch
NoParseAfterFetchFailure ==
    \A d \in 1..Len(outcome) :
        outcome[d].exhausted => ~outcome[d].parser_called

====
